---- MODULE Spec2Model ----
(***************************************************************************)
(* Model of hackathon/strand_agent.py: the command-line entry point main,  *)
(* the construction of AWSDocumentationAgent (configuration loading, tool  *)
(* registration, output directory), the three tool proxies, process_task   *)
(* and _save_result.                                                       *)
(*                                                                         *)
(* Python values are modelled as follows.                                  *)
(*   - an Optional value is a set with at most one element: None is {},    *)
(*     the value v is {v};                                                 *)
(*   - a dict is a function whose DOMAIN is its key set;                   *)
(*   - a list is a sequence;                                               *)
(*   - a str that takes part in path arithmetic or concatenation is a      *)
(*     sequence of fragments ("" is <<>>), any other str is a TLA+ string; *)
(*   - the outcome of a call is Returned(v) or Raised(e), e an instance of *)
(*     Exception (interpreter exits such as KeyboardInterrupt are outside  *)
(*     the model).                                                         *)
(***************************************************************************)
EXTENDS Integers, Sequences, FiniteSets, TLC

VARIABLES
    pc,            \* position of the single thread of control
    args,          \* argparse namespace: config, task, params
    config_file,   \* what is on disk at the path given with --config
    files,         \* result documents on disk, path -> document
    config,        \* self.config
    strand,        \* self.strand (the Strand instance's model and tools)
    output_dir,    \* self.output_dir
    task,          \* the Task being processed
    search_call,   \* process_task's call of the search proxy
    read_call,     \* process_task's call of the read proxy
    tool_call,     \* the framework's latest call of a registered tool
    n_tool_calls,  \* number of tool calls the framework made
    result,        \* the TaskOutput returned by the framework
    trace,         \* the external operations of the run, in order
    written,       \* the paths this run opened for writing, in order
    stdout,        \* what main printed
    uncaught,      \* the exception that reached the process boundary
    exit_status    \* the exit status of the process

vars == <<pc, args, config_file, files, config, strand, output_dir, task,
          search_call, read_call, tool_call, n_tool_calls, result, trace,
          written, stdout, uncaught, exit_status>>

\* ------------------------------------------------------------------ bounds

\* longest list the documentation server answers a search with
MaxResults == 2
\* most calls of registered tools the framework makes while it runs a task
MaxToolCalls == 1

\* --------------------------------------------------------- program constants

DefaultSearchLimit == 10
EnrichmentSearchLimit == 5
DefaultMaxLength == 5000
DefaultStartIndex == 0
ExitFailure == 1
ExitSuccess == 0

\* ------------------------------------------------------------ Python values

None == {}
Some(v) == {v}
TheValue(opt) == CHOOSE v \in opt : TRUE

Returned(v) == [kind |-> "return", value |-> v]
Raised(e) == [error |-> e, kind |-> "raise"]

\* ------------------------------------------------------------- command line

\* json.loads on the texts given with --params
json_loads(text) ==
    CASE text = "{\"aws_service\": \"s3\"}" -> Returned([aws_service |-> "s3"])
      [] text = "{\"search_phrase\": \"x\"}" -> Returned([search_phrase |-> "x"])
      [] OTHER -> Raised("JSONDecodeError")

ConfigArgs == {None, Some("agent.yaml"), Some("")}
TaskArgs == {None, Some(<<"foo">>), Some(<<"/", "tmp", "/", "x">>), Some(<<>>)}
ParamsArgs ==
    {None, Some("not-json"), Some("{\"aws_service\": \"s3\"}"),
     Some("{\"search_phrase\": \"x\"}"), Some("")}

\* ------------------------------------------------------- Python values, ctd.

\* dict.get(key): None when the key is absent
DictGet(d, key) == IF key \in DOMAIN d THEN Some(d[key]) ELSE None
\* dict.get(key, default)
DictGetDefault(d, key, default) == IF key \in DOMAIN d THEN d[key] ELSE default

\* truth value of an Optional[str]: None and "" are false; the first for a
\* str held as a TLA+ string, the second for one held as fragments
Truthy(opt) == \E v \in opt : v # ""
TruthyText(opt) == \E v \in opt : v # <<>>

SeqsUpTo(S, n) == UNION {[1..k -> S] : k \in 0..n}

\* ------------------------------------------------------------ configuration

default_config ==
    [model |-> "gpt-4o",
     output_dir |-> <<"output">>,
     tasks |-> <<[description |-> "Search AWS documentation for specific topics",
                  name |-> "aws_documentation_search",
                  parameters |-> [limit |-> "integer", search_phrase |-> "string"]]>>]

\* Mappings a configuration file can deserialize to: complete ones and ones
\* that give only some of the keys.
ConfigDocuments ==
    {[api_key |-> "sk-file", model |-> "gpt-4", output_dir |-> <<"results">>,
      tasks |-> <<>>],
     [model |-> "gpt-4"],
     [output_dir |-> <<"results", "/">>],
     [output_dir |-> <<>>]}

\* What can be found at a configuration path: nothing (open raises), a file
\* that cannot be read (open raises), text that is not YAML (safe_load
\* raises), or YAML; an empty YAML document loads as None.
ConfigFileStates ==
    {[document |-> None, state |-> s] : s \in {"missing", "unreadable", "invalid", "yaml"}}
    \cup {[document |-> Some(d), state |-> "yaml"] : d \in ConfigDocuments}

LoadFails(file) == file.state \in {"missing", "unreadable", "invalid"}

\* _load_config: the defaults without a path or when anything raises,
\* otherwise whatever yaml.safe_load returned.
\* variant: a failed load leaves no configuration
MutLoadConfigPropagate(config_path, file) ==
    IF ~Truthy(config_path) THEN Some(default_config)
    ELSE IF LoadFails(file) THEN None
    ELSE file.document
\* variant: a file that omits keys is replaced by the defaults
MutLoadConfigDiscardPartial(config_path, file) ==
    IF ~Truthy(config_path) \/ LoadFails(file) THEN Some(default_config)
    ELSE IF file.document # None
            /\ DOMAIN TheValue(file.document) # DOMAIN default_config
         THEN Some(default_config)
         ELSE file.document
_load_config(config_path, file) ==
    IF ~Truthy(config_path) THEN Some(default_config)
    ELSE IF LoadFails(file) THEN Some(default_config)
    ELSE file.document

\* ------------------------------------------------- documentation server (MCP)

SEARCH_OPERATION == "awslabsaws_documentation_mcp_server___search_documentation"
READ_OPERATION == "awslabsaws_documentation_mcp_server___read_documentation"
RECOMMEND_OPERATION == "awslabsaws_documentation_mcp_server___recommend"

\* Records the server lists: with a URL, with an empty URL, without the key.
ResultRecords ==
    {[title |-> "S3", url |-> "http://x/s3"],
     [title |-> "blank", url |-> ""],
     [title |-> "untitled"]}

RemoteErrors == {"ConnectionError"}

\* Every way mcp_client.call can end, per operation.
SearchOutcomes ==
    {Returned(r) : r \in SeqsUpTo(ResultRecords, MaxResults)}
    \cup {Raised(e) : e \in RemoteErrors}
\* The same for the searches the framework asks for on its own.
FrameworkSearchOutcomes ==
    {Returned(r) : r \in {<<>>, <<[title |-> "S3", url |-> "http://x/s3"]>>}}
    \cup {Raised(e) : e \in RemoteErrors}
ReadOutcomes ==
    {Returned(<<"# Getting started">>)} \cup {Raised(e) : e \in RemoteErrors}
RecommendOutcomes ==
    {Returned(r) : r \in {<<>>, <<[title |-> "Next", url |-> "http://x/next"]>>}}
    \cup {Raised(e) : e \in RemoteErrors}

\* ------------------------------------------------------------- tool proxies

\* variant: no try/except around the call
MutSearchPropagates(remote) == remote
search_aws_documentation(remote) ==
    IF remote.kind = "return" THEN Returned(remote.value) ELSE Returned(<<>>)

\* variant: no try/except around the call
MutReadPropagates(remote) == remote
read_aws_documentation(remote) ==
    IF remote.kind = "return"
    THEN Returned(remote.value)
    ELSE Returned(<<"Error: ", remote.error>>)

get_aws_documentation_recommendations(remote) ==
    IF remote.kind = "return" THEN Returned(remote.value) ELSE Returned(<<>>)

\* The requests the proxies send, with the defaults of their signatures.
SearchRequest(search_phrase, limit) ==
    [operation |-> SEARCH_OPERATION,
     payload |-> [limit |-> limit, search_phrase |-> search_phrase]]
ReadRequest(url, max_length, start_index) ==
    [operation |-> READ_OPERATION,
     payload |-> [max_length |-> max_length, start_index |-> start_index, url |-> url]]
RecommendRequest(url) ==
    [operation |-> RECOMMEND_OPERATION, payload |-> [url |-> url]]

\* One call of a proxy: what was sent, how the server call ended, how the
\* proxy ended.
Call(tool, request, remote, outcome) ==
    [outcome |-> outcome, remote |-> remote, request |-> request, tool |-> tool]

\* --------------------------------------------------------------------- paths

RESULT_SUFFIX == "_result.json"

\* os.path.join(a, p) for POSIX paths: an absolute p discards a; otherwise
\* the parts are joined with one separator unless a is empty or ends in one.
path_join(a, p) ==
    IF p # <<>> /\ p[1] = "/" THEN p
    ELSE IF a = <<>> \/ a[Len(a)] = "/" THEN a \o p
    ELSE a \o <<"/">> \o p

\* os.path.join(self.output_dir, f"{task_name}_result.json")
output_path(dir, task_name) == path_join(dir, task_name \o <<RESULT_SUFFIX>>)

\* ---------------------------------------------------------------------- disk

EmptyDict == [k \in {} |-> ""]

\* What Task(...) starts its context with is the framework's business.
InitialContexts ==
    {<<>>, <<[content |-> <<"be brief">>, source |-> "framework", type |-> "note"]>>}

\* What the framework's process_task can return.
TaskOutputs ==
    {[metadata |-> [tokens |-> "12"], output |-> "answer"],
     [metadata |-> [tokens |-> "40"], output |-> "another answer"]}

\* Result documents left by earlier runs.
EarlierDocument ==
    [metadata |-> [tokens |-> "1"], output |-> "stale", task |-> <<"earlier">>]
EarlierPaths ==
    {<<"output", "/", "aws_documentation_search", RESULT_SUFFIX>>,
     <<"output", "/", "foo", RESULT_SUFFIX>>,
     <<"results", "/", "foo", RESULT_SUFFIX>>,
     <<"/", "tmp", "/", "x", RESULT_SUFFIX>>}
InitialFiles == {EmptyDict, [p \in EarlierPaths |-> EarlierDocument]}

TOOLS ==
    {"search_aws_documentation", "read_aws_documentation",
     "get_aws_documentation_recommendations"}

Init ==
    /\ pc = "main"
    /\ args \in [config : ConfigArgs, params : ParamsArgs, task : TaskArgs]
    /\ config_file \in IF Truthy(args.config)
                       THEN ConfigFileStates
                       ELSE {[document |-> None, state |-> "missing"]}
    /\ files \in InitialFiles
    /\ config = None
    /\ strand = None
    /\ output_dir = None
    /\ task = None
    /\ search_call = None
    /\ read_call = None
    /\ tool_call = None
    /\ n_tool_calls = 0
    /\ result = None
    /\ trace = <<>>
    /\ written = <<>>
    /\ stdout = None
    /\ uncaught = None
    /\ exit_status = None

\* An exception reaches the process boundary: traceback, exit status 1.
Crash(e) ==
    /\ pc' = "exited"
    /\ uncaught' = Some(e)
    /\ exit_status' = Some(ExitFailure)

\* ------------------------------------------------- AWSDocumentationAgent()

\* __init__, line 43: self.config = self._load_config(config_path)
LoadConfig ==
    /\ pc = "main"
    /\ config' = _load_config(args.config, config_file)
    /\ pc' = "init_strand"
    /\ UNCHANGED <<args, config_file, files, strand, output_dir, task, search_call,
                   read_call, tool_call, n_tool_calls, result, trace, written,
                   stdout, uncaught, exit_status>>

\* os.environ.get("OPENAI_API_KEY")
ENVIRONMENT_API_KEY == "sk-environment"

\* __init__, lines 44-51: Strand(api_key=self.config.get("api_key", <the
\* environment's>), model=self.config.get("model", "gpt-4o")) and the three
\* tools; self.config.get raises AttributeError when self.config is None.
InitStrand ==
    /\ pc = "init_strand"
    /\ IF config = None
       THEN /\ Crash("AttributeError")
            /\ UNCHANGED strand
       ELSE /\ strand' = Some([api_key |-> DictGetDefault(TheValue(config), "api_key",
                                                          ENVIRONMENT_API_KEY),
                               model |-> DictGetDefault(TheValue(config), "model", "gpt-4o"),
                               tools |-> TOOLS])
            /\ pc' = "makedirs"
            /\ UNCHANGED <<uncaught, exit_status>>
    /\ UNCHANGED <<args, config_file, files, config, output_dir, task, search_call,
                   read_call, tool_call, n_tool_calls, result, trace, written, stdout>>

\* self.config.get("output_dir", "output")
configured_output_dir(cfg) == DictGetDefault(cfg, "output_dir", <<"output">>)

\* __init__, lines 54-55: os.makedirs(self.output_dir, exist_ok=True), which
\* raises FileNotFoundError for "".
MakeOutputDir ==
    /\ pc = "makedirs"
    /\ output_dir' = Some(configured_output_dir(TheValue(config)))
    /\ IF configured_output_dir(TheValue(config)) = <<>>
       THEN Crash("FileNotFoundError")
       ELSE /\ pc' = "build_task"
            /\ UNCHANGED <<uncaught, exit_status>>
    /\ UNCHANGED <<args, config_file, files, config, strand, task, search_call,
                   read_call, tool_call, n_tool_calls, result, trace, written, stdout>>

\* line 55: os.makedirs raises for another reason (no permission, a file in
\* the way); nothing catches it
MakeOutputDirFails ==
    /\ pc = "makedirs"
    /\ configured_output_dir(TheValue(config)) # <<>>
    /\ output_dir' = Some(configured_output_dir(TheValue(config)))
    /\ Crash("OSError")
    /\ UNCHANGED <<args, config_file, files, config, strand, task, search_call,
                   read_call, tool_call, n_tool_calls, result, trace, written, stdout>>

\* ---------------------------------------------------------------------- main

NewTask(name, description, parameters, context) ==
    [context |-> context, description |-> description, name |-> name,
     parameters |-> parameters]

\* main, lines 230-243: --task given; --params is parsed only here, and only
\* when it is not empty.
ParamsParsed == TruthyText(args.task) /\ Truthy(args.params)

BuildNamedTask ==
    /\ pc = "build_task"
    /\ TruthyText(args.task)
    /\ ~(ParamsParsed /\ json_loads(TheValue(args.params)).kind = "raise")
    /\ \E context \in InitialContexts :
         task' = Some(NewTask(TheValue(args.task),
                              <<"Running task ">> \o TheValue(args.task),
                              IF ParamsParsed
                              THEN json_loads(TheValue(args.params)).value
                              ELSE EmptyDict,
                              context))
    /\ pc' = "process_task"
    /\ UNCHANGED <<args, config_file, files, config, strand, output_dir, search_call,
                   read_call, tool_call, n_tool_calls, result, trace, written,
                   stdout, uncaught, exit_status>>

\* the status of sys.exit on line 237
\* variant: sys.exit(0)
MutParamsErrorStatus == ExitSuccess
params_error_status == ExitFailure

\* main, lines 233-237: json.JSONDecodeError, logger.error, sys.exit(1)
RejectParams ==
    /\ pc = "build_task"
    /\ ParamsParsed
    /\ json_loads(TheValue(args.params)).kind = "raise"
    /\ pc' = "exited"
    /\ exit_status' = Some(params_error_status)
    /\ UNCHANGED <<args, config_file, files, config, strand, output_dir, task,
                   search_call, read_call, tool_call, n_tool_calls, result, trace,
                   written, stdout, uncaught>>

\* main, lines 247-253: no --task, the default task; --params is not looked at
BuildDefaultTask ==
    /\ pc = "build_task"
    /\ ~TruthyText(args.task)
    /\ \E context \in InitialContexts :
         task' = Some(NewTask(<<"aws_documentation_search">>,
                              <<"Search AWS documentation for CloudFormation">>,
                              [search_phrase |-> "CloudFormation best practices"],
                              context))
    /\ pc' = "process_task"
    /\ UNCHANGED <<args, config_file, files, config, strand, output_dir, search_call,
                   read_call, tool_call, n_tool_calls, result, trace, written,
                   stdout, uncaught, exit_status>>

\* -------------------------------------------------------------- process_task

TheTask == TheValue(task)

\* line 177: "aws_service" in task.parameters
WantsEnrichment(t) == "aws_service" \in DOMAIN t.parameters

\* line 180: f"{service} getting started"
search_phrase_for(service) == <<service, " getting started">>

\* lines 177-182: the search for the service's getting-started page
EnrichSearch ==
    /\ pc = "process_task"
    /\ WantsEnrichment(TheTask)
    /\ \E remote \in SearchOutcomes :
         LET outcome == search_aws_documentation(remote)
         IN /\ search_call' =
                 Some(Call("search_aws_documentation",
                           SearchRequest(search_phrase_for(TheTask.parameters["aws_service"]),
                                         EnrichmentSearchLimit),
                           remote, outcome))
            /\ IF outcome.kind = "raise"
               THEN Crash(outcome.error)
               ELSE /\ pc' = "searched"
                    /\ UNCHANGED <<uncaught, exit_status>>
    /\ trace' = Append(trace, "search")
    /\ UNCHANGED <<args, config_file, files, config, strand, output_dir, task,
                   read_call, tool_call, n_tool_calls, result, written, stdout>>

\* line 177 false: no enrichment
\* variant: the append is outside the if
MutSkipEnrichmentStillAppends ==
    /\ pc = "process_task"
    /\ ~WantsEnrichment(TheValue(task))
    /\ task' = Some([TheValue(task) EXCEPT !.context =
                       Append(@, [content |-> <<>>, source |-> "",
                                  type |-> "aws_documentation"])])
    /\ pc' = "execute"
    /\ UNCHANGED <<args, config_file, files, config, strand, output_dir,
                   search_call, read_call, tool_call, n_tool_calls, result, trace,
                   written, stdout, uncaught, exit_status>>
SkipEnrichment ==
    /\ pc = "process_task"
    /\ ~WantsEnrichment(TheTask)
    /\ pc' = "execute"
    /\ UNCHANGED <<args, config_file, files, config, strand, output_dir, task,
                   search_call, read_call, tool_call, n_tool_calls, result, trace,
                   written, stdout, uncaught, exit_status>>

search_results == TheValue(search_call).outcome.value

\* lines 184-187: the URL enrichment reads, None when there is none: the list
\* is empty, or its first record has no "url" or a false one.
\* variant: no "if url" before the read
MutFirstUrlUnchecked(results) ==
    IF Len(results) > 0 THEN Some(DictGetDefault(results[1], "url", "")) ELSE None
enrichment_url(results) ==
    IF Len(results) > 0 /\ Truthy(DictGet(results[1], "url"))
    THEN DictGet(results[1], "url")
    ELSE None

\* lines 189-193
\* variant: the record does not carry the URL
MutRecordWithoutSource(doc_content, url) ==
    [content |-> doc_content, source |-> "", type |-> "aws_documentation"]
context_record(doc_content, url) ==
    [content |-> doc_content, source |-> url, type |-> "aws_documentation"]

\* lines 184-193: read the first result's page and append it to the context
EnrichRead ==
    /\ pc = "searched"
    /\ enrichment_url(search_results) # None
    /\ LET url == TheValue(enrichment_url(search_results))
       IN \E remote \in ReadOutcomes :
            LET outcome == read_aws_documentation(remote)
            IN /\ read_call' =
                    Some(Call("read_aws_documentation",
                              ReadRequest(url, DefaultMaxLength, DefaultStartIndex),
                              remote, outcome))
               /\ IF outcome.kind = "raise"
                  THEN /\ Crash(outcome.error)
                       /\ UNCHANGED task
                  ELSE /\ task' = Some([TheTask EXCEPT !.context =
                                          Append(@, context_record(outcome.value, url))])
                       /\ pc' = "execute"
                       /\ UNCHANGED <<uncaught, exit_status>>
    /\ trace' = Append(trace, "read")
    /\ UNCHANGED <<args, config_file, files, config, strand, output_dir, search_call,
                   tool_call, n_tool_calls, result, written, stdout>>

\* lines 184 and 187 false: nothing to read
NothingToRead ==
    /\ pc = "searched"
    /\ enrichment_url(search_results) = None
    /\ pc' = "execute"
    /\ UNCHANGED <<args, config_file, files, config, strand, output_dir, task,
                   search_call, read_call, tool_call, n_tool_calls, result, trace,
                   written, stdout, uncaught, exit_status>>

\* line 196: self.strand.process_task(task) is entered
Execute ==
    /\ pc = "execute"
    /\ pc' = "in_framework"
    /\ trace' = Append(trace, "execute")
    /\ UNCHANGED <<args, config_file, files, config, strand, output_dir, task,
                   search_call, read_call, tool_call, n_tool_calls, result, written,
                   stdout, uncaught, exit_status>>

\* While it runs the task the framework may call the tools registered with
\* it (lines 98, 120, 143), with arguments of its choosing.
FrameworkSearches ==
    /\ pc = "in_framework"
    /\ n_tool_calls < MaxToolCalls
    /\ \E remote \in FrameworkSearchOutcomes :
         tool_call' =
           Some(Call("search_aws_documentation",
                     SearchRequest(<<"CloudFormation best practices">>, DefaultSearchLimit),
                     remote, search_aws_documentation(remote)))
    /\ n_tool_calls' = n_tool_calls + 1
    /\ UNCHANGED <<pc, args, config_file, files, config, strand, output_dir, task,
                   search_call, read_call, result, trace, written, stdout, uncaught,
                   exit_status>>

FrameworkReads ==
    /\ pc = "in_framework"
    /\ n_tool_calls < MaxToolCalls
    /\ \E remote \in ReadOutcomes :
         tool_call' =
           Some(Call("read_aws_documentation",
                     ReadRequest("http://x/s3", DefaultMaxLength, DefaultStartIndex),
                     remote, read_aws_documentation(remote)))
    /\ n_tool_calls' = n_tool_calls + 1
    /\ UNCHANGED <<pc, args, config_file, files, config, strand, output_dir, task,
                   search_call, read_call, result, trace, written, stdout, uncaught,
                   exit_status>>

FrameworkAsksRecommendations ==
    /\ pc = "in_framework"
    /\ n_tool_calls < MaxToolCalls
    /\ \E remote \in RecommendOutcomes :
         tool_call' =
           Some(Call("get_aws_documentation_recommendations",
                     RecommendRequest("http://x/s3"),
                     remote, get_aws_documentation_recommendations(remote)))
    /\ n_tool_calls' = n_tool_calls + 1
    /\ UNCHANGED <<pc, args, config_file, files, config, strand, output_dir, task,
                   search_call, read_call, result, trace, written, stdout, uncaught,
                   exit_status>>

\* line 196: the framework returns a TaskOutput
FrameworkReturns ==
    /\ pc = "in_framework"
    /\ \E out \in TaskOutputs : result' = Some(out)
    /\ pc' = "save"
    /\ trace' = Append(trace, "executed")
    /\ UNCHANGED <<args, config_file, files, config, strand, output_dir, task,
                   search_call, read_call, tool_call, n_tool_calls, written, stdout,
                   uncaught, exit_status>>

\* line 196: the framework raises; nothing in process_task or main catches it
\* variant: the framework's exception is caught and a result saved anyway
MutFrameworkErrorSwallowed ==
    /\ pc = "in_framework"
    /\ result' = Some([metadata |-> [tokens |-> "0"], output |-> "failed"])
    /\ pc' = "save"
    /\ trace' = Append(trace, "execute raised")
    /\ UNCHANGED <<args, config_file, files, config, strand, output_dir, task,
                   search_call, read_call, tool_call, n_tool_calls, written, stdout,
                   uncaught, exit_status>>
FrameworkRaises ==
    /\ pc = "in_framework"
    /\ Crash("StrandError")
    /\ trace' = Append(trace, "execute raised")
    /\ UNCHANGED <<args, config_file, files, config, strand, output_dir, task,
                   search_call, read_call, tool_call, n_tool_calls, result, written,
                   stdout>>

\* -------------------------------------------------------------- _save_result

\* lines 213-217: the document json.dump writes
result_document(task_name, r) ==
    [metadata |-> r.metadata, output |-> r.output, task |-> task_name]

\* lines 199, 211-218: open(output_path, 'w') and json.dump
SaveResult ==
    /\ pc = "save"
    /\ LET path == output_path(TheValue(output_dir), TheTask.name)
       IN /\ files' = (path :> result_document(TheTask.name, TheValue(result))) @@ files
          /\ written' = Append(written, path)
    /\ pc' = "print"
    /\ trace' = Append(trace, "save")
    /\ UNCHANGED <<args, config_file, config, strand, output_dir, task, search_call,
                   read_call, tool_call, n_tool_calls, result, stdout, uncaught,
                   exit_status>>

\* line 212: open raises OSError; nothing catches it
SaveFails ==
    /\ pc = "save"
    /\ Crash("OSError")
    /\ trace' = Append(trace, "save raised")
    /\ UNCHANGED <<args, config_file, files, config, strand, output_dir, task,
                   search_call, read_call, tool_call, n_tool_calls, result, written,
                   stdout>>

\* lines 212-217: the file is opened, and so emptied, but json.dump raises on
\* an output it cannot serialize after the document's beginning is written;
\* nothing catches it and the partial file stays
partial_document(task_name) == [task |-> task_name]

SaveDumpFails ==
    /\ pc = "save"
    /\ LET path == output_path(TheValue(output_dir), TheTask.name)
       IN /\ files' = (path :> partial_document(TheTask.name)) @@ files
          /\ written' = Append(written, path)
    /\ Crash("TypeError")
    /\ trace' = Append(trace, "save raised")
    /\ UNCHANGED <<args, config_file, config, strand, output_dir, task, search_call,
                   read_call, tool_call, n_tool_calls, result, stdout>>

\* lines 201 and 246 or 255: print the output; the process ends with status 0
PrintOutput ==
    /\ pc = "print"
    /\ stdout' = Some([output |-> TheValue(result).output])
    /\ exit_status' = Some(ExitSuccess)
    /\ pc' = "exited"
    /\ UNCHANGED <<args, config_file, files, config, strand, output_dir, task,
                   search_call, read_call, tool_call, n_tool_calls, result, trace,
                   written, uncaught>>

Next ==
    \/ LoadConfig
    \/ InitStrand
    \/ MakeOutputDir
    \/ MakeOutputDirFails
    \/ BuildNamedTask
    \/ RejectParams
    \/ BuildDefaultTask
    \/ EnrichSearch
    \/ SkipEnrichment
    \/ EnrichRead
    \/ NothingToRead
    \/ Execute
    \/ FrameworkSearches
    \/ FrameworkReads
    \/ FrameworkAsksRecommendations
    \/ FrameworkReturns
    \/ FrameworkRaises
    \/ SaveResult
    \/ SaveFails
    \/ SaveDumpFails
    \/ PrintOutput

Spec == Init /\ [][Next]_vars

\* ===================================================================== claims

\* ------------------------------------------------------------------------ C1

ReturnsUnchanged(call) ==
    call.remote.kind = "return" => call.outcome = Returned(call.remote.value)

\* C1: whichever way the server call behind a tool proxy ends, the proxy
\* returns: the server's value unchanged when there is one, and when the call
\* raised, the empty list (search, recommendations) or a string that starts
\* with "Error: " (read). No proxy call ends by raising.
C1_ProxyContract ==
    /\ \A call \in search_call :
         /\ call.outcome.kind = "return"
         /\ ReturnsUnchanged(call)
         /\ call.remote.kind = "raise" => call.outcome.value = <<>>
    /\ \A call \in read_call :
         /\ call.outcome.kind = "return"
         /\ ReturnsUnchanged(call)
         /\ call.remote.kind = "raise" =>
              /\ Len(call.outcome.value) > 0
              /\ call.outcome.value[1] = "Error: "
    /\ \A call \in tool_call :
         /\ call.outcome.kind = "return"
         /\ ReturnsUnchanged(call)
         /\ call.remote.kind = "raise" =>
              IF call.tool = "read_aws_documentation"
              THEN /\ Len(call.outcome.value) > 0
                   /\ call.outcome.value[1] = "Error: "
              ELSE call.outcome.value = <<>>

\* A run in which the search returned records, the read behind it raised and
\* the recommendation call the framework made raised too.
C1_Witness ==
    /\ search_call # None
    /\ TheValue(search_call).remote.kind = "return"
    /\ Len(TheValue(search_call).outcome.value) = MaxResults
    /\ read_call # None
    /\ TheValue(read_call).remote.kind = "raise"
    /\ tool_call # None
    /\ TheValue(tool_call).tool = "get_aws_documentation_recommendations"
    /\ TheValue(tool_call).remote.kind = "raise"

\* ------------------------------------------------------------------------ C2

\* C2: when a configuration path is given and loading it fails (the file is
\* missing, cannot be read, or is not valid YAML), the configuration is the
\* built-in default mapping: model gpt-4o, output_dir "output" and the one
\* aws_documentation_search task template.
C2_LoadFailureGivesDefaults ==
    (pc # "main" /\ Truthy(args.config) /\ LoadFails(config_file)) =>
        /\ config # None
        /\ DOMAIN TheValue(config) = {"model", "output_dir", "tasks"}
        /\ TheValue(config).model = "gpt-4o"
        /\ TheValue(config).output_dir = <<"output">>
        /\ Len(TheValue(config).tasks) = 1
        /\ TheValue(config).tasks[1].name = "aws_documentation_search"
        /\ TheValue(config) = default_config

\* A run with a configuration file that is not YAML that went on to finish.
C2_Witness ==
    /\ pc = "exited"
    /\ exit_status = Some(ExitSuccess)
    /\ Truthy(args.config)
    /\ config_file.state = "invalid"
    /\ config = Some(default_config)

\* ------------------------------------------------------------------------ C7

GivesSomeKeysOnly(file) ==
    /\ file.state = "yaml"
    /\ file.document # None
    /\ DOMAIN TheValue(file.document) # {}
    /\ DOMAIN TheValue(file.document) # DOMAIN default_config
    /\ DOMAIN TheValue(file.document) \subseteq DOMAIN default_config

\* C7 as stated: a configuration file that gives only some of the keys is
\* discarded as a whole, and the configuration is the built-in default mapping.
C7_PartialFileDiscarded ==
    (pc # "main" /\ Truthy(args.config) /\ GivesSomeKeysOnly(config_file)) =>
        config = Some(default_config)

\* C7, amended: a configuration file that gives only some of the keys is kept
\* exactly as loaded, and each key it omits takes its default where it is
\* read: the model of the Strand instance and the output directory are the
\* file's values where it gives them, gpt-4o and "output" where it does not.
C7_PartialFileKept ==
    (pc # "main" /\ Truthy(args.config) /\ GivesSomeKeysOnly(config_file)) =>
        LET document == TheValue(config_file.document)
        IN /\ config = Some(document)
           /\ \A s \in strand :
                s.model = IF "model" \in DOMAIN document THEN document.model ELSE "gpt-4o"
           /\ \A d \in output_dir :
                d = IF "output_dir" \in DOMAIN document
                    THEN document.output_dir
                    ELSE <<"output">>

\* A finished run whose file gave only the model: the model is the file's,
\* the output directory the default.
C7_Witness ==
    /\ pc = "exited"
    /\ exit_status = Some(ExitSuccess)
    /\ Truthy(args.config)
    /\ config_file.document = Some([model |-> "gpt-4"])
    /\ strand # None
    /\ TheValue(strand).model = "gpt-4"
    /\ output_dir = Some(<<"output">>)

\* ------------------------------------------------------------------------ C5

ParamsGivenAndInvalid ==
    /\ args.params # None
    /\ json_loads(TheValue(args.params)).kind = "raise"

\* C5 as stated: whenever --params is given and is not valid JSON, with or
\* without --task, the process ends with a non-zero status and writes no
\* result file.
C5_InvalidParamsAlwaysRejected ==
    ParamsGivenAndInvalid =>
        /\ written = <<>>
        /\ pc = "exited" => exit_status # Some(ExitSuccess)

\* C5, amended: whenever --task is given and not empty, and --params is given,
\* not empty and not valid JSON, no task is built or run, no result file is
\* written and the process ends with a non-zero status.
C5_InvalidParamsRejectedWithTask ==
    (ParamsGivenAndInvalid /\ TruthyText(args.task) /\ Truthy(args.params)) =>
        /\ task = None
        /\ trace = <<>>
        /\ written = <<>>
        /\ pc = "exited" => exit_status # Some(ExitSuccess)

\* The process ended by rejecting the parameters of a named task.
C5_Witness ==
    /\ pc = "exited"
    /\ args.task = Some(<<"foo">>)
    /\ args.params = Some("not-json")
    /\ uncaught = None
    /\ exit_status = Some(ExitFailure)

\* ------------------------------------------------------------------------ C3

HasUrl(record) == Truthy(DictGet(record, "url"))

\* The step appends exactly one aws_documentation record whose source is url
\* and whose content is what the read proxy returned for url, and hands the
\* task on to the executor.
AppendsDocumentationOf(url) ==
    /\ pc' = "execute"
    /\ read_call' # None
    /\ TheValue(read_call').request.payload.url = url
    /\ TheValue(read_call').outcome.kind = "return"
    /\ TheValue(task').context =
         Append(TheTask.context,
                [content |-> TheValue(read_call').outcome.value,
                 source |-> url,
                 type |-> "aws_documentation"])
    /\ [TheValue(task') EXCEPT !.context = <<>>] = [TheTask EXCEPT !.context = <<>>]

\* C3 as stated: for a task with aws_service whose search returned at least
\* one result carrying a URL, process_task appends exactly one
\* aws_documentation record, with that URL as its source and the read proxy's
\* return value as its content, before the task goes to the executor.
C3_AnyResultWithUrlEnriches ==
    [][(pc = "searched" /\ \E i \in 1..Len(search_results) : HasUrl(search_results[i]))
         => \E i \in 1..Len(search_results) :
              /\ HasUrl(search_results[i])
              /\ AppendsDocumentationOf(search_results[i].url)]_vars

\* C3, amended: for a task with aws_service whose FIRST search result carries
\* a non-empty URL, process_task appends exactly one aws_documentation record,
\* with that URL as its source and the read proxy's return value for that URL
\* as its content, before the task goes to the executor.
C3_FirstResultWithUrlEnriches ==
    [][(pc = "searched" /\ Len(search_results) > 0 /\ HasUrl(search_results[1]))
         => AppendsDocumentationOf(search_results[1].url)]_vars

\* The task is about to be executed with the page of the first result, which
\* the server delivered, appended to a context that already held a record.
C3_Witness ==
    /\ pc = "execute"
    /\ search_call # None
    /\ Len(search_results) > 0
    /\ HasUrl(search_results[1])
    /\ read_call # None
    /\ TheValue(read_call).remote.kind = "return"
    /\ Len(TheTask.context) = 2
    /\ TheTask.context[2].type = "aws_documentation"
    /\ TheTask.context[2].source = "http://x/s3"
    /\ TheTask.context[2].content = <<"# Getting started">>

\* ------------------------------------------------------------------------ C4

\* C4: for a task whose parameters do not contain aws_service, process_task
\* never changes the task (so not its context list) and calls neither the
\* search proxy nor the read proxy: the executor is the first thing it calls.
C4_NoServiceNoEnrichment ==
    [][(task # None /\ ~("aws_service" \in DOMAIN TheTask.parameters))
         => /\ task' = task
            /\ search_call' = None
            /\ read_call' = None
            /\ trace' # <<>> => trace'[1] = "execute"
            /\ pc = "process_task" => pc' = "execute"]_vars

\* A task without aws_service, whose context held a record, was executed.
C4_Witness ==
    /\ pc = "exited"
    /\ exit_status = Some(ExitSuccess)
    /\ task # None
    /\ "aws_service" \notin DOMAIN TheTask.parameters
    /\ "search_phrase" \in DOMAIN TheTask.parameters
    /\ Len(TheTask.context) = 1
    /\ search_call = None
    /\ read_call = None

\* ------------------------------------------------------------------------ C6

RECURSIVE CollapseSeparators(_)
\* The path with every run of separators reduced to one: the same file.
CollapseSeparators(path) ==
    IF Len(path) < 2 THEN path
    ELSE IF path[1] = "/" /\ path[2] = "/"
         THEN CollapseSeparators(Tail(path))
         ELSE <<path[1]>> \o CollapseSeparators(Tail(path))

\* <output_dir>/<task_name>_result.json
StatedResultPath == TheValue(output_dir) \o <<"/">> \o TheTask.name \o <<RESULT_SUFFIX>>

\* C6: a process_task run that completes has written exactly one result file,
\* the one at <output_dir>/<task_name>_result.json with output_dir the loaded
\* configuration's value, which now holds this run's document; no run writes a
\* second file or a file at another path.
C6_OneFileAtStatedPath ==
    /\ Len(written) <= 1
    /\ \A i \in 1..Len(written) :
         /\ TheValue(output_dir) = configured_output_dir(TheValue(config))
         /\ CollapseSeparators(written[i]) = CollapseSeparators(StatedResultPath)
    /\ pc = "print" =>
         /\ Len(written) = 1
         /\ written[1] \in DOMAIN files
         /\ files[written[1]] = result_document(TheTask.name, TheValue(result))

\* ------------------------------------------------------------------------ C8

Occurrences(seq, x) == Cardinality({i \in 1..Len(seq) : seq[i] = x})

\* The search of this run gave enrichment nothing to read: no results (also
\* the empty list that stands for a failed call), or a first result without a
\* URL.
SearchGaveNoUrl ==
    /\ search_call # None
    /\ \/ Len(search_results) = 0
       \/ ~HasUrl(search_results[1])

\* C8: for a task with aws_service whose search gives no results (a failed
\* search included) or a first result without a URL, enrichment is skipped
\* silently: the read proxy is never called, the task's context stays as it
\* was, the search is not repeated, nothing is raised by the skipping, the
\* executor is the next thing called, and a run the executor and the disk do
\* not fail ends with its result saved.
C8_NoUrlSkipsEnrichment ==
    [][SearchGaveNoUrl =>
         /\ task' = task
         /\ read_call' = None
         /\ search_call' = search_call
         /\ Occurrences(trace', "search") = 1
         /\ Occurrences(trace', "read") = 0
         /\ pc = "searched" => (pc' = "execute" /\ uncaught' = None)
         /\ uncaught' \in {None, Some("StrandError"), Some("OSError"), Some("TypeError")}
         /\ (pc' = "exited" /\ uncaught' = None) =>
              /\ trace' = <<"search", "execute", "executed", "save">>
              /\ Len(written') = 1
              /\ files'[written'[1]] = result_document(TheTask.name, TheValue(result'))
              /\ exit_status' = Some(ExitSuccess)]_vars

\* A run whose search call failed ended with its result saved and nothing read.
C8_Witness ==
    /\ pc = "exited"
    /\ exit_status = Some(ExitSuccess)
    /\ search_call # None
    /\ TheValue(search_call).remote.kind = "raise"
    /\ read_call = None
    /\ Len(written) = 1

\* ------------------------------------------------------------------------ C9

IsPrefix(s, t) == Len(s) <= Len(t) /\ \A i \in 1..Len(s) : s[i] = t[i]

\* The orders in which a run of process_task can call out.
LinearRuns ==
    {enrich \o rest :
       enrich \in {<<>>, <<"search">>, <<"search", "read">>},
       rest \in {<<"execute", "executed", "save">>,
                 <<"execute", "executed", "save raised">>,
                 <<"execute", "execute raised">>}}

\* C9: a run of process_task is linear: the search proxy at most once and
\* before execution, the read proxy at most once and only after the search,
\* the executor exactly once, the result file written only after the executor
\* returned; when the executor raises, the exception reaches the process
\* boundary and no result file is written.
C9_LinearRun ==
    /\ \E run \in LinearRuns : IsPrefix(trace, run)
    /\ (task # None /\ pc \in {"in_framework", "save", "print", "exited"}) =>
         Occurrences(trace, "execute") = 1
    /\ pc \in {"save", "print"} => Occurrences(trace, "executed") = 1
    /\ written # <<>> =>
         /\ result # None
         /\ \E i \in 1..(Len(trace) - 1) :
              /\ trace[i] = "executed"
              /\ trace[i + 1] \in {"save", "save raised"}
    /\ Occurrences(trace, "execute raised") > 0 =>
         /\ pc = "exited"
         /\ uncaught = Some("StrandError")
         /\ exit_status = Some(ExitFailure)
         /\ result = None
         /\ written = <<>>

\* A run that went through every stage: searched, read, executed, saved.
C9_Witness ==
    /\ pc = "exited"
    /\ trace = <<"search", "read", "execute", "executed", "save">>
    /\ n_tool_calls = MaxToolCalls

\* ----------------------------------------------------------------------- C10

ReadFailed == read_call # None /\ TheValue(read_call).remote.kind = "raise"

\* C10: when enrichment reaches the read and the server's read call fails,
\* enrichment goes on: one aws_documentation record is appended, its source
\* the URL and its content the read proxy's "Error: ..." string, and the task
\* is then executed and its result saved as in any other run.
C10_FailedReadStillEnriches ==
    [][ReadFailed' =>
         /\ pc = "searched" =>
              /\ pc' = "execute"
              /\ uncaught' = None
              /\ TheValue(task').context =
                   Append(TheTask.context,
                          [content |-> <<"Error: ", TheValue(read_call').remote.error>>,
                           source |-> search_results[1].url,
                           type |-> "aws_documentation"])
         /\ pc # "searched" => task' = task
         /\ uncaught' \in {None, Some("StrandError"), Some("OSError"), Some("TypeError")}
         /\ (pc' = "exited" /\ uncaught' = None) =>
              /\ trace' = <<"search", "read", "execute", "executed", "save">>
              /\ Len(written') = 1
              /\ exit_status' = Some(ExitSuccess)]_vars

\* A run whose read call failed ended with its result saved and the error
\* string in the task's context.
C10_Witness ==
    /\ pc = "exited"
    /\ exit_status = Some(ExitSuccess)
    /\ ReadFailed
    /\ Len(written) = 1
    /\ TheTask.context[Len(TheTask.context)].content = <<"Error: ", "ConnectionError">>
    /\ TheTask.context[Len(TheTask.context)].source = "http://x/s3"

====
